---- MODULE Spec2Model ----
(***************************************************************************)
(* Two-phase topic grouping pipeline of the news aggregator:               *)
(*   analysis/two_phase_grouping.py, pipeline.py, utils.py, db/database.py *)
(* The store is the SQLite database db/news.db; the pipeline is one        *)
(* process walking run_full_pipeline_headless, scrapers insert articles    *)
(* concurrently, and the classifier (the LLM behind call_gpt_api) answers  *)
(* nondeterministically.                                                   *)
(***************************************************************************)
EXTENDS Integers, Sequences, FiniteSets, TLC

\* ---------------------------------------------------------------- bounds
\* Number of distinct article links the scrapers may insert.
MaxLinks == 2
\* Total number of assignment entries the classifier returns in one Phase 1 run.
MaxAssign == 2
\* Number of pipeline cycles started.
MaxRuns == 2
\* Number of subgroups the classifier returns for one Phase 2 chunk.
MaxSubResp == 2
\* Number of article ids the classifier lists in one returned subgroup.
MaxSubArticles == 2
\* Total number of rows of two_phase_subgroups.
MaxSubgroups == 2
\* Number of documents in a mapping handed to chunk_summaries directly.
MaxDocs == 4
\* Number of characters of a text handed to approximate_tokens directly.
MaxText == 6
\* Number of characters of the content of a completion.
MaxContent == 2
MaxParseChunks == 2
MaxEntries == 2
\* Number of articles in the store a scraper checks a candidate against.
MaxStored == 2
\* Number of cycles of the background loop.
MaxCycles == 2

\* ------------------------------------------------------ program constants
PREDEFINED_CATEGORIES ==
    << "Science & Environment",
       "Business, Finance & Trade",
       "Artificial Intelligence & Machine Learning",
       "Software Development & Open Source",
       "Cybersecurity & Data Privacy",
       "Politics & Government",
       "Consumer Technology & Gadgets",
       "Automotive, Space & Transportation",
       "Enterprise Technology & Cloud Computing",
       "Other" >>

MAX_TOKEN_CHUNK == 70000

\* llm_calls.py
MAX_RETRIES == 3

\* time.sleep(2) between two attempts.
RETRY_SLEEP == 2

\* ------------------------------------------------------------ value sets
\* articles.link: the primary key of an article.
Links == 1..MaxLinks

\* A missing, null or empty "article_id" of an assignment (falsy in Python).
NoId == 0

\* The "category" key is missing from an assignment.
NoCategory == "<absent>"

\* Category strings the classifier may return: recognised names, the
\* catch-all, a name outside the list, or no category at all.
ClassifierLabels ==
    { "Science & Environment", "Cybersecurity & Data Privacy", "Other",
      "Quantum Computing", NoCategory }

\* Whitespace-delimited word count of title || ' - ' || content of an article.
WordCount(link) == IF link = 1 THEN 30000 ELSE IF link = 2 THEN 30000 ELSE 10000

\* published_date of an article (later links are more recent).
PublishedDate(link) == link

Range(s) == { s[i] : i \in DOMAIN s }

CategorySet == Range(PREDEFINED_CATEGORIES)

\* ----------------------------------------------------------------- state
VARIABLES
    articles,              \* table articles: the set of stored links
    groups,                \* table two_phase_article_groups: group_id -> main_topic
    memberships,           \* table two_phase_article_group_memberships: <<article_link, group_id>>
    subgroups,             \* table two_phase_subgroups: subgroup_id -> category
    subgroup_memberships,  \* table two_phase_subgroup_memberships: <<article_link, subgroup_id>>
    pc,                    \* position of the pipeline process
    runs,                  \* pipeline cycles started so far
    summaries_dict,        \* Phase 1 selection: links in iteration order
    chunk_i,               \* Phase 1: index of the chunk being classified
    all_assignments,       \* Phase 1: assignments accumulated over the chunks
    result,                \* Phase 1: result["groups"]
    unanswered,            \* history: links sent in the last Phase 1 run that no response named
    skipped,               \* history: links of the chunks of this Phase 1 run whose call failed
    tx_groups,             \* save_two_phase_groups: the connection's view of the groups table
    tx_memberships,        \* save_two_phase_groups: the connection's view of the memberships table
    grp_i,                 \* save_two_phase_groups: index of grp in grouped_results["groups"]
    art_i,                 \* save_two_phase_groups: index of art_id in grp["articles"]
    new_gid,               \* save_two_phase_groups: c.lastrowid
    save_log,              \* save_two_phase_groups: what it printed ("saved" or "error")
    superseded,            \* history: membership rows removed by the DELETEs of the last save
    cat_i,                 \* pipeline step 5: index of cat in PREDEFINED_CATEGORIES
    sub_dict,              \* Phase 2 selection of the current category
    sub_chunk_i,           \* Phase 2: index of the chunk being clustered
    cs_summaries_dict,     \* chunk_summaries: the mapping argument, ids in iteration order
    cs_max_token_chunk,    \* chunk_summaries: the budget argument
    cs_yielded,            \* chunk_summaries: the chunks yielded, in order
    cs_done,               \* chunk_summaries: the generator is exhausted
    text,                  \* approximate_tokens: the text argument, as characters
    token_estimate,        \* approximate_tokens: the value returned
    tok_done,              \* approximate_tokens: the call has returned
    gpt_pc,                \* call_gpt_api: position in the function
    api_key,               \* call_gpt_api: the api_key argument, then the local
    env_key,               \* call_gpt_api: os.getenv("OPENAI_API_KEY")
    attempt,               \* call_gpt_api: the loop variable
    outcomes,              \* call_gpt_api: what each attempt made so far ended with
    slept,                 \* call_gpt_api: seconds spent in time.sleep
    gpt_result,            \* call_gpt_api: the value returned (None as << >>, a text t as << t >>)
    classifier,            \* step 5 with a repeatable classifier: chunk -> its answer
    clustered,             \* step 5 with a repeatable classifier: the categories already run
    stage,                 \* response handling: the function running ("phase1" or "phase2")
    n_chunks,              \* response handling: len(chunked)
    parse_i,               \* response handling: index of the chunk whose response is handled
    sent,                  \* response handling: how the last response was written
    data,                  \* response handling: json.loads(cleaned) of the last response
    parsed_assignments,    \* response handling: all_assignments, each entry by its JSON type
    handled,               \* history: per chunk, what its response was and what it contributed
    parse_pc,              \* response handling: position in the function
    existing,              \* scraper: table articles, link -> source and texts (by similarity)
    cand_link,             \* scraper: entry['link'] of the candidate
    read_fault,            \* scraper: the statement of is_duplicate at which the storage fails
    is_dup,                \* scraper: the value is_duplicate returned
    read_failed,           \* scraper: is_duplicate ran into sqlite3.Error
    dup_pc,                \* scraper: position in the loop body of process_krebs_articles
    loop_pc,               \* main.py: position of the process (main, then the loop thread)
    entry,                 \* main.py: what was started, main() or run_full_pipeline_headless
    environ_key,           \* main.py: os.getenv('OPENAI_API_KEY')
    arg_key,               \* pipeline.py: the api_key argument
    cycles,                \* main.py: calls of run_full_cycle so far
    calls,                 \* history: the stages invoked in this cycle, in order
    next_cat,              \* pipeline.py step 5: index of cat in PREDEFINED_CATEGORIES
    logs,                  \* pipeline.py: what run_full_pipeline_headless returned
    touched                \* history: a stage or a scraper ran against the tables

db == << articles, groups, memberships, subgroups, subgroup_memberships >>
phase1 == << summaries_dict, chunk_i, all_assignments, result, unanswered, skipped >>
save == << tx_groups, tx_memberships, grp_i, art_i, new_gid, save_log, superseded >>
phase2 == << cat_i, sub_dict, sub_chunk_i >>
pipeline == << db, pc, runs, phase1, save, phase2 >>
chunker == << cs_summaries_dict, cs_max_token_chunk, cs_yielded, cs_done >>
\* State of the functions that are also exercised on their own, outside a
\* pipeline run.
tokenizer == << text, token_estimate, tok_done >>
gpt == << gpt_pc, api_key, env_key, attempt, outcomes, slept, gpt_result >>
repeatable == << classifier, clustered >>
parser == << stage, n_chunks, parse_i, sent, data, parsed_assignments, handled, parse_pc >>
units1 == << chunker, tokenizer, gpt, repeatable >>
dedup == << existing, cand_link, read_fault, is_dup, read_failed, dup_pc >>
cycle == << loop_pc, entry, environ_key, arg_key, cycles, calls, next_cat, logs, touched >>
units2 == << parser, dedup, cycle >>
units == << units1, units2 >>
vars == << pipeline, units >>

\* ------------------------------------------------------------- utils.py
\* len(text.split()): the number of maximal runs of non-whitespace characters.
split_len(t) ==
    Cardinality({ i \in DOMAIN t : t[i] # " " /\ (i = Len(t) \/ t[i + 1] = " ") })

\* approximate_tokens: int(len(text.split()) * 1.3), on the word count.
approximate_tokens(words) == (words * 13) \div 10

RECURSIVE chunk_loop(_, _, _, _, _, _)
chunk_loop(sd, max_token_chunk, i, current_chunk, current_tokens, out) ==
    IF i > Len(sd)
    THEN IF current_chunk # << >> THEN Append(out, current_chunk) ELSE out
    ELSE LET link == sd[i]
             tokens_for_article == approximate_tokens(WordCount(link))
         IN  IF tokens_for_article > max_token_chunk
             THEN IF current_chunk # << >>
                  THEN chunk_loop(sd, max_token_chunk, i + 1, << >>, 0,
                                  Append(Append(out, current_chunk), << link >>))
                  ELSE chunk_loop(sd, max_token_chunk, i + 1, current_chunk,
                                  current_tokens, Append(out, << link >>))
             ELSE IF current_tokens + tokens_for_article > max_token_chunk
                  THEN chunk_loop(sd, max_token_chunk, i + 1, << link >>,
                                  tokens_for_article,
                                  IF current_chunk # << >>
                                  THEN Append(out, current_chunk) ELSE out)
                  ELSE chunk_loop(sd, max_token_chunk, i + 1,
                                  Append(current_chunk, link),
                                  current_tokens + tokens_for_article, out)

\* chunk_summaries: the chunks in yield order, each the links of one chunk.
\* (variant: a document that exceeds the budget on its own is skipped)
chunk_summaries_OversizeSkipped(sd, max_token_chunk) ==
    SelectSeq(chunk_loop(sd, max_token_chunk, 1, << >>, 0, << >>),
              LAMBDA c : ~ ( /\ Len(c) = 1
                             /\ approximate_tokens(WordCount(c[1])) > max_token_chunk ))
\* (variant: the budget test is left out and everything goes into one chunk)
chunk_summaries_Unbounded(sd, max_token_chunk) ==
    IF sd = << >> THEN << >> ELSE << sd >>
\* (variant: every document is yielded in a chunk of its own)
chunk_summaries_OnePerChunk(sd, max_token_chunk) ==
    [ i \in DOMAIN sd |-> << sd[i] >> ]
chunk_summaries(sd, max_token_chunk) ==
    chunk_loop(sd, max_token_chunk, 1, << >>, 0, << >>)

\* ----------------------------------------------------------- SQL helpers
\* ORDER BY published_date DESC of a set of links.
RECURSIVE OrderByDateDesc(_)
OrderByDateDesc(S) ==
    IF S = {} THEN << >>
    ELSE LET top == CHOOSE l \in S : \A m \in S : PublishedDate(m) <= PublishedDate(l)
         IN  << top >> \o OrderByDateDesc(S \ {top})

\* Rows of the memberships table `ms` for one article.
MembershipsOf(ms, link) == { m \in ms : m[1] = link }

\* DELETE FROM two_phase_article_group_memberships WHERE article_link = ?
\* (variant: the DELETE is left out)
DeleteMembership_Skipped(ms, art_id) == ms
DeleteMembership(ms, art_id) == { m \in ms : m[1] # art_id }

\* INSERT OR IGNORE INTO two_phase_article_group_memberships (article_link, group_id)
\* (variant: the insert is ignored)
InsertOrIgnoreMembership_Lost(ms, art_id, gid) == ms
InsertOrIgnoreMembership(ms, art_id, gid) == ms \cup { << art_id, gid >> }

\* get_ungrouped_articles_two_phase: articles with no membership row.
\* (variant: the NOT EXISTS filter is left out)
UngroupedAll(arts, ms) == OrderByDateDesc(arts)
get_ungrouped_articles_two_phase(arts, ms) ==
    OrderByDateDesc({ a \in arts : MembershipsOf(ms, a) = {} })

\* Subgroup ids whose subgroup has the given category.
SubgroupsOfCategory(sgs, category) == { s \in DOMAIN sgs : sgs[s] = category }

\* get_articles_in_category_not_subgrouped.
\* (variant: the NOT EXISTS filter on subgroup memberships is left out)
SubgroupFilterDropped(arts, gs, ms, sgs, sms, category) ==
    OrderByDateDesc({ a \in arts :
        \E m \in ms : m[1] = a /\ m[2] \in DOMAIN gs /\ gs[m[2]] = category })
\* (variant: an article with a membership in any subgroup is left out)
SubgroupFilterAnyCategory(arts, gs, ms, sgs, sms, category) ==
    OrderByDateDesc({ a \in arts :
        /\ \E m \in ms : m[1] = a /\ m[2] \in DOMAIN gs /\ gs[m[2]] = category
        /\ ~ \E sm \in sms : sm[1] = a })
get_articles_in_category_not_subgrouped(arts, gs, ms, sgs, sms, category) ==
    OrderByDateDesc({ a \in arts :
        /\ \E m \in ms : m[1] = a /\ m[2] \in DOMAIN gs /\ gs[m[2]] = category
        /\ ~ \E sm \in sms : sm[1] = a /\ sm[2] \in SubgroupsOfCategory(sgs, category) })

\* ------------------------------------------------- classifier responses
SeqsUpTo(S, n) == UNION { [1..k -> S] : k \in 0..n }

\* One entry of "assignments": {"article_id": ..., "category": ...}.
Assignment == [ article_id : Links \cup {NoId}, category : ClassifierLabels ]

\* call_gpt_api returned None (all retries failed) or an empty text.
FailedCall == [ ok |-> FALSE, items |-> << >> ]

\* What one Phase 1 classifier call may yield with `room` entries left.
Phase1Responses(room) ==
    {FailedCall} \cup { [ ok |-> TRUE, items |-> a ] : a \in SeqsUpTo(Assignment, room) }

\* One entry of "groups" in Phase 2: only its "articles" array matters here.
SubgroupAnswer == [ articles : SeqsUpTo(Links, MaxSubArticles) ]

\* What one Phase 2 classifier call may yield with `room` subgroup rows left.
Phase2Responses(room) ==
    {FailedCall} \cup
    { [ ok |-> TRUE, items |-> g ] :
        g \in SeqsUpTo(SubgroupAnswer, IF room < MaxSubResp THEN room ELSE MaxSubResp) }

\* -------------------- two_phase_grouping_with_predefined_categories
\* grouped_data = {cat: [] for cat in PREDEFINED_CATEGORIES}, plus "Other".
EmptyGroupedData == [ cat \in CategorySet \cup {"Other"} |-> << >> ]

\* cat = assn.get("category", "Other"); if cat not in grouped_data: cat = "Other"
\* (variant: an unknown category is kept as a new key)
CoerceCategory_Invented(category, gd) ==
    IF category = NoCategory THEN "Other" ELSE category
CoerceCategory(category, gd) ==
    LET cat == IF category = NoCategory THEN "Other" ELSE category
    IN  IF cat \notin DOMAIN gd THEN "Other" ELSE cat

\* for assn in all_assignments: ... grouped_data[cat].append(art_id)
RECURSIVE group_assignments(_, _, _)
group_assignments(assns, i, gd) ==
    IF i > Len(assns) THEN gd
    ELSE LET art_id == assns[i].article_id
             cat == CoerceCategory(assns[i].category, gd)
             old == IF cat \in DOMAIN gd THEN gd[cat] ELSE << >>
         IN  group_assignments(assns, i + 1,
                 IF art_id # NoId
                 THEN [ c \in DOMAIN gd \cup {cat} |->
                          IF c = cat THEN Append(old, art_id) ELSE gd[c] ]
                 ELSE gd)

GroupRecord(cat, gd) == [ main_topic |-> cat, articles |-> gd[cat] ]

\* for cat in PREDEFINED_CATEGORIES: if articles: result["groups"].append(...)
RECURSIVE listed_groups(_, _, _)
listed_groups(gd, i, out) ==
    IF i > Len(PREDEFINED_CATEGORIES) THEN out
    ELSE LET cat == PREDEFINED_CATEGORIES[i]
         IN  listed_groups(gd, i + 1,
                 IF gd[cat] # << >> THEN Append(out, GroupRecord(cat, gd)) ELSE out)

\* result["groups"]: the listed categories, then "Other" once more when it is
\* non-empty (lines 259-265 run although "Other" is in PREDEFINED_CATEGORIES).
result_groups(gd) ==
    LET listed == listed_groups(gd, 1, << >>)
    IN  IF gd["Other"] # << >>
        THEN Append(listed, GroupRecord("Other", gd))
        ELSE listed

\* Article ids that appear (non-empty) in the responses of a run.
AnsweredIds(assns) == { assns[i].article_id : i \in DOMAIN assns } \ {NoId}

\* The value two_phase_grouping_with_predefined_categories returns for the
\* selection sd once the classifier calls have yielded assns.
\* (variant: articles no response named are put under "Other")
two_phase_grouping_ForcedOther(sd, assns) ==
    LET silent == SelectSeq(sd, LAMBDA l : l \notin AnsweredIds(assns))
    IN  result_groups(group_assignments(
            assns \o [ i \in DOMAIN silent |->
                         [ article_id |-> silent[i], category |-> "Other" ] ],
            1, EmptyGroupedData))
two_phase_grouping(sd, assns) ==
    result_groups(group_assignments(assns, 1, EmptyGroupedData))

\* -------------------------------------------------------------- Init
\* The tables as setup_database creates them.
StoreEmpty ==
    /\ articles = {}
    /\ groups = << >>
    /\ memberships = {}
    /\ subgroups = << >>
    /\ subgroup_memberships = {}

\* No pipeline run is in progress.
PipelineAtRest ==
    /\ pc = "idle"
    /\ runs = 0
    /\ summaries_dict = << >>
    /\ chunk_i = 1
    /\ all_assignments = << >>
    /\ result = << >>
    /\ unanswered = {}
    /\ skipped = {}
    /\ tx_groups = << >>
    /\ tx_memberships = {}
    /\ grp_i = 1
    /\ art_i = 1
    /\ new_gid = 0
    /\ save_log = ""
    /\ superseded = {}
    /\ cat_i = 1
    /\ sub_dict = << >>
    /\ sub_chunk_i = 1

PipelineInit ==
    /\ StoreEmpty
    /\ PipelineAtRest

\* No direct call of chunk_summaries is in progress.
ChunkerIdle ==
    /\ cs_summaries_dict = << >>
    /\ cs_max_token_chunk = MAX_TOKEN_CHUNK
    /\ cs_yielded = << >>
    /\ cs_done = FALSE

\* No direct call of approximate_tokens is in progress.
TokenizerIdle ==
    /\ text = << >>
    /\ token_estimate = 0
    /\ tok_done = FALSE

\* Python's None, and a returned text.
None == << >>
Some(t) == << t >>

\* No direct call of call_gpt_api is in progress.
GptIdle ==
    /\ gpt_pc = "idle"
    /\ api_key = None
    /\ env_key = None
    /\ attempt = 0
    /\ outcomes = << >>
    /\ slept = 0
    /\ gpt_result = None

\* The classifier of a pipeline run is not repeatable: it answers afresh
\* on every call.
RepeatableIdle ==
    /\ classifier = << >>
    /\ clustered = {}

\* A JSON document by what the response handling looks at: its top-level
\* type, what it has under the expected key, and the JSON type of each entry
\* of the array under that key.  Invalid is a text that is not JSON.
JsonDoc(top, key, entries) == [ top |-> top, key |-> key, entries |-> entries ]
Invalid == JsonDoc("invalid", "absent", << >>)

\* No response has been handled.
NoResponse == [ form |-> "none", padded |-> FALSE, doc |-> Invalid ]

\* No response handling on its own is in progress.
ParserIdle ==
    /\ stage = "phase1"
    /\ n_chunks = 0
    /\ parse_i = 1
    /\ sent = NoResponse
    /\ data = Invalid
    /\ parsed_assignments = << >>
    /\ handled = << >>
    /\ parse_pc = "idle"

\* No scraper is handling a feed entry.
DedupIdle ==
    /\ existing = << >>
    /\ cand_link = 0
    /\ read_fault = "none"
    /\ is_dup = FALSE
    /\ read_failed = FALSE
    /\ dup_pc = "idle"

\* main.py has not been started.
CycleIdle ==
    /\ loop_pc = "idle"
    /\ entry = "main"
    /\ environ_key = None
    /\ arg_key = None
    /\ cycles = 0
    /\ calls = << >>
    /\ next_cat = 1
    /\ logs = "none"
    /\ touched = FALSE

Units2Idle ==
    /\ ParserIdle
    /\ DedupIdle
    /\ CycleIdle

Init ==
    /\ PipelineInit
    /\ ChunkerIdle
    /\ TokenizerIdle
    /\ GptIdle
    /\ RepeatableIdle
    /\ Units2Idle

\* The pipeline holds SQLite's write lock from its first INSERT to its commit.
WriteLocked ==
    \/ pc \in { "save_delete", "save_insert", "save_commit" }
    \/ pc = "save_group" /\ grp_i > 1

\* ----------------------------------------------------------- scrapers
\* A scraper stores a new article: INSERT OR REPLACE INTO articles, by link.
InsertArticle ==
    /\ ~ WriteLocked
    /\ \E link \in Links \ articles : articles' = articles \cup {link}
    /\ UNCHANGED << units, groups, memberships, subgroups, subgroup_memberships,
                    pc, runs, phase1, save, phase2 >>

\* ------------------------------------------ run_full_pipeline_headless
\* Step 4, lines 45-55: read the ungrouped articles and build summaries_dict.
StartPipeline ==
    /\ pc = "idle"
    /\ runs < MaxRuns
    /\ runs' = runs + 1
    /\ LET df == get_ungrouped_articles_two_phase(articles, memberships)
       IN  /\ summaries_dict' = df
           /\ pc' = IF df = << >> THEN "phase2" ELSE "classify"
    /\ chunk_i' = 1
    /\ all_assignments' = << >>
    /\ result' = << >>
    /\ skipped' = {}
    /\ UNCHANGED << units, db, unanswered, save, phase2 >>

\* Lines 197-266 of two_phase_grouping.py: one classifier call for the next
\* chunk; a failed call is skipped, an answer extends all_assignments. After
\* the last chunk the assignments are grouped into result["groups"].
ClassifyChunk ==
    /\ pc = "classify"
    /\ \E response \in Phase1Responses(MaxAssign - Len(all_assignments)) :
         LET assns == IF response.ok THEN all_assignments \o response.items
                      ELSE all_assignments
             last == chunk_i >= Len(chunk_summaries(summaries_dict, MAX_TOKEN_CHUNK))
         IN  /\ all_assignments' = assns
             /\ chunk_i' = IF last THEN 1 ELSE chunk_i + 1
             /\ result' = IF last THEN two_phase_grouping(summaries_dict, assns) ELSE result
             /\ unanswered' = IF last THEN Range(summaries_dict) \ AnsweredIds(assns)
                              ELSE unanswered
             /\ skipped' = IF response = FailedCall
                           THEN skipped \cup
                                Range(chunk_summaries(summaries_dict, MAX_TOKEN_CHUNK)[chunk_i])
                           ELSE skipped
             /\ pc' = IF last THEN "grouped" ELSE "classify"
    /\ UNCHANGED << units, db, runs, summaries_dict, save, phase2 >>

\* pipeline.py lines 57-61: save_two_phase_groups is called when there are
\* groups (line 269 opens the connection); otherwise step 5 follows.
SaveOrSkip ==
    /\ pc = "grouped"
    /\ pc' = IF result # << >> THEN "save_group" ELSE "phase2"
    /\ tx_groups' = IF result # << >> THEN groups ELSE tx_groups
    /\ tx_memberships' = IF result # << >> THEN memberships ELSE tx_memberships
    /\ all_assignments' = << >>
    /\ UNCHANGED << units, db, runs, summaries_dict, chunk_i, result, unanswered, skipped,
                    grp_i, art_i, new_gid, save_log, superseded, phase2 >>

\* -------------------------------------------------- save_two_phase_groups
SavePcs == { "save_group", "save_delete", "save_insert", "save_commit" }

\* Article ids listed in result["groups"].
AssignedIds(res) == UNION { Range(res[g].articles) : g \in DOMAIN res }

\* Position after the INSERT OR IGNORE of article a of group g.
AfterArticle(g, a) ==
    IF a < Len(result[g].articles) THEN "save_delete"
    ELSE IF g < Len(result) THEN "save_group"
    ELSE "save_commit"

\* Lines 274-278: INSERT INTO two_phase_article_groups; new_gid = c.lastrowid.
\* (variant: a group with the same main_topic is reused)
SaveInsertGroup_Upsert ==
    /\ pc = "save_group"
    /\ LET same == { g \in DOMAIN tx_groups : tx_groups[g] = result[grp_i].main_topic }
       IN  IF same # {}
           THEN /\ tx_groups' = tx_groups
                /\ new_gid' = CHOOSE g \in same : TRUE
           ELSE /\ tx_groups' = Append(tx_groups, result[grp_i].main_topic)
                /\ new_gid' = Len(tx_groups) + 1
    /\ art_i' = 1
    /\ pc' = "save_delete"
    /\ UNCHANGED << units, db, runs, phase1, tx_memberships, grp_i, save_log, superseded, phase2 >>
SaveInsertGroup ==
    /\ pc = "save_group"
    /\ tx_groups' = Append(tx_groups, result[grp_i].main_topic)
    /\ new_gid' = Len(tx_groups) + 1
    /\ art_i' = 1
    /\ pc' = "save_delete"
    /\ UNCHANGED << units, db, runs, phase1, tx_memberships, grp_i, save_log, superseded, phase2 >>

\* Lines 284-287: DELETE the article's old membership rows (in the transaction).
\* (variant: the connection is in autocommit mode)
SaveDeleteMembership_Autocommit ==
    /\ pc = "save_delete"
    /\ LET after == DeleteMembership(tx_memberships, result[grp_i].articles[art_i])
       IN  /\ tx_memberships' = after
           /\ memberships' = after
           /\ groups' = tx_groups
           /\ superseded' = superseded \cup (tx_memberships \ after)
    /\ pc' = "save_insert"
    /\ UNCHANGED << units, articles, subgroups, subgroup_memberships, runs, phase1,
                    tx_groups, grp_i, art_i, new_gid, save_log, phase2 >>
SaveDeleteMembership ==
    /\ pc = "save_delete"
    /\ LET after == DeleteMembership(tx_memberships, result[grp_i].articles[art_i])
       IN  /\ tx_memberships' = after
           /\ superseded' = superseded \cup (tx_memberships \ after)
    /\ pc' = "save_insert"
    /\ UNCHANGED << units, db, runs, phase1, tx_groups, grp_i, art_i, new_gid, save_log, phase2 >>

\* Lines 289-292: INSERT OR IGNORE the new membership (in the transaction).
SaveInsertMembership ==
    /\ pc = "save_insert"
    /\ tx_memberships' =
         InsertOrIgnoreMembership(tx_memberships, result[grp_i].articles[art_i], new_gid)
    /\ pc' = AfterArticle(grp_i, art_i)
    /\ art_i' = IF art_i < Len(result[grp_i].articles) THEN art_i + 1 ELSE 1
    /\ grp_i' = IF art_i < Len(result[grp_i].articles) THEN grp_i ELSE grp_i + 1
    /\ UNCHANGED << units, db, runs, phase1, tx_groups, new_gid, save_log, superseded, phase2 >>

\* Line 300: the connection is closed; the cursor state is gone.
SaveReturns ==
    /\ tx_groups' = << >>
    /\ tx_memberships' = {}
    /\ grp_i' = 1
    /\ art_i' = 1
    /\ new_gid' = 0

\* Lines 294-295: conn.commit() publishes the transaction.
SaveCommit ==
    /\ pc = "save_commit"
    /\ groups' = tx_groups
    /\ memberships' = tx_memberships
    /\ save_log' = "saved"
    /\ pc' = "phase2"
    /\ SaveReturns
    /\ UNCHANGED << units, articles, subgroups, subgroup_memberships, runs, phase1,
                    superseded, phase2 >>

\* Lines 296-298: a storage error at any statement (or at the commit) is
\* caught and the transaction is rolled back.
SaveStorageError ==
    /\ pc \in SavePcs
    /\ save_log' = "error"
    /\ pc' = "phase2"
    /\ SaveReturns
    /\ UNCHANGED << units, db, runs, phase1, superseded, phase2 >>

\* ------------------------------------------ group_articles_within_category
Category == PREDEFINED_CATEGORIES[cat_i]

\* pipeline.py lines 67-69: the position after the call for category cat_i.
AfterCategory == IF cat_i < Len(PREDEFINED_CATEGORIES) THEN "phase2" ELSE "idle"

\* Step 5 of the pipeline never reads what step 4 left behind.
Phase1Forgotten ==
    /\ summaries_dict' = << >>
    /\ result' = << >>
    /\ skipped' = {}
    /\ save_log' = ""
    /\ superseded' = {}

\* Lines 308-325: select the category's articles that are not subgrouped yet;
\* return at once when there are none.
SelectForCategory ==
    /\ pc = "phase2"
    /\ LET df == get_articles_in_category_not_subgrouped(
                     articles, groups, memberships, subgroups, subgroup_memberships, Category)
       IN  /\ sub_dict' = df
           /\ pc' = IF df = << >> THEN AfterCategory ELSE "sub_chunk"
           /\ cat_i' = IF df = << >>
                       THEN (IF cat_i < Len(PREDEFINED_CATEGORIES) THEN cat_i + 1 ELSE 1)
                       ELSE cat_i
    /\ sub_chunk_i' = 1
    /\ Phase1Forgotten
    /\ UNCHANGED << units, db, runs, chunk_i, all_assignments, unanswered,
                    tx_groups, tx_memberships, grp_i, art_i, new_gid >>

\* INSERT OR IGNORE INTO two_phase_subgroup_memberships, for each listed id.
\* (variant: the article's older subgroup rows are deleted first, as Phase 1 does)
ReplaceSubgroupMemberships(sms, arts, sgid) ==
    { sm \in sms : sm[1] \notin Range(arts) } \cup { << arts[i], sgid >> : i \in DOMAIN arts }
InsertOrIgnoreSubgroupMemberships(sms, arts, sgid) ==
    sms \cup { << arts[i], sgid >> : i \in DOMAIN arts }

\* Lines 376-393: the rows of the subgroup memberships table after the groups
\* g..Len(answer) were stored, the first of them under subgroup id sgid.
RECURSIVE store_subgroups(_, _, _, _)
store_subgroups(sms, answer, g, sgid) ==
    IF g > Len(answer) THEN sms
    ELSE store_subgroups(
             InsertOrIgnoreSubgroupMemberships(sms, answer[g].articles, sgid),
             answer, g + 1, sgid + 1)

\* Lines 329-400: one classifier call for the next chunk and, when it returned
\* groups, one transaction storing them; a storage error rolls it back.
ClusterChunk ==
    /\ pc = "sub_chunk"
    /\ \E response \in Phase2Responses(MaxSubgroups - Len(subgroups)), storage_ok \in BOOLEAN :
         LET stored == response.ok /\ response.items # << >> /\ storage_ok
             last == sub_chunk_i >= Len(chunk_summaries(sub_dict, MAX_TOKEN_CHUNK))
         IN  /\ subgroups' =
                   IF stored
                   THEN subgroups \o [ g \in 1..Len(response.items) |-> Category ]
                   ELSE subgroups
             /\ subgroup_memberships' =
                   IF stored
                   THEN store_subgroups(subgroup_memberships, response.items, 1,
                                        Len(subgroups) + 1)
                   ELSE subgroup_memberships
             /\ pc' = IF last THEN AfterCategory ELSE "sub_chunk"
             /\ sub_chunk_i' = IF last THEN 1 ELSE sub_chunk_i + 1
             /\ cat_i' = IF last
                         THEN (IF cat_i < Len(PREDEFINED_CATEGORIES) THEN cat_i + 1 ELSE 1)
                         ELSE cat_i
             /\ sub_dict' = IF last THEN << >> ELSE sub_dict
    /\ UNCHANGED << units, articles, groups, memberships, runs, phase1, save >>

\* ------------------------------------------------------------- crash
\* The pipeline process is killed: an open transaction is never committed,
\* and a restarted process begins with a fresh cycle.
Crash ==
    /\ pc # "idle"
    /\ pc' = "idle"
    /\ summaries_dict' = << >>
    /\ chunk_i' = 1
    /\ all_assignments' = << >>
    /\ result' = << >>
    /\ unanswered' = {}
    /\ skipped' = {}
    /\ tx_groups' = << >>
    /\ tx_memberships' = {}
    /\ grp_i' = 1
    /\ art_i' = 1
    /\ new_gid' = 0
    /\ save_log' = ""
    /\ superseded' = {}
    /\ cat_i' = 1
    /\ sub_dict' = << >>
    /\ sub_chunk_i' = 1
    /\ UNCHANGED << units, db, runs >>

Next ==
    \/ InsertArticle
    \/ StartPipeline
    \/ ClassifyChunk
    \/ SaveOrSkip
    \/ SaveInsertGroup
    \/ SaveDeleteMembership
    \/ SaveInsertMembership
    \/ SaveCommit
    \/ SaveStorageError
    \/ SelectForCategory
    \/ ClusterChunk
    \/ Crash

Spec == Init /\ [][Next]_vars

\* ------------------- group_articles_within_category, category by category
\* Lines 329-400 for the chunks i..Len(chunks), the classifier answering
\* cls[chunk] and no storage error: the two subgroup tables after the loop.
RECURSIVE cluster_chunks(_, _, _, _, _, _)
cluster_chunks(chunks, i, category, cls, sgs, sms) ==
    IF i > Len(chunks)
    THEN [ subgroups |-> sgs, subgroup_memberships |-> sms ]
    ELSE LET response == cls[chunks[i]]
             stored == response.ok /\ response.items # << >>
         IN  cluster_chunks(chunks, i + 1, category, cls,
                 IF stored
                 THEN sgs \o [ g \in 1..Len(response.items) |-> category ]
                 ELSE sgs,
                 IF stored
                 THEN store_subgroups(sms, response.items, 1, Len(sgs) + 1)
                 ELSE sms)

\* group_articles_within_category(category, ...) as a whole: selection,
\* chunking, one classifier call and one transaction per chunk.
group_articles_within_category(arts, gs, ms, sgs, sms, category, cls) ==
    cluster_chunks(
        chunk_summaries(
            get_articles_in_category_not_subgrouped(arts, gs, ms, sgs, sms, category),
            MAX_TOKEN_CHUNK),
        1, category, cls, sgs, sms)

\* The categories that hold articles in the stores examined here.
OrderCategories == { PREDEFINED_CATEGORIES[1], "Other" }

\* Every chunk a Phase 2 selection over the stored articles can produce.
PossibleChunks ==
    UNION { Range(chunk_summaries(OrderByDateDesc(S), MAX_TOKEN_CHUNK)) : S \in SUBSET Links }

\* A store after Phase 1: every article stored, a group for each of the two
\* categories and at most one membership per article; a classifier that
\* answers a chunk the same way whenever it is asked.
InitRepeatable ==
    /\ PipelineAtRest
    /\ ChunkerIdle
    /\ TokenizerIdle
    /\ GptIdle
    /\ Units2Idle
    /\ articles = Links
    /\ groups = << PREDEFINED_CATEGORIES[1], "Other" >>
    /\ \E f \in [ Links -> 0..2 ] :
         memberships = { << a, f[a] >> : a \in { x \in Links : f[x] # 0 } }
    /\ subgroups = << >>
    /\ subgroup_memberships = {}
    /\ clustered = {}
    /\ classifier \in [ PossibleChunks -> Phase2Responses(MaxSubResp) ]

\* pipeline.py line 68 for one category, the categories taken in any order.
ClusterCategory ==
    /\ \E c \in OrderCategories \ clustered :
         LET after == group_articles_within_category(
                          articles, groups, memberships,
                          subgroups, subgroup_memberships, c, classifier)
         IN  /\ subgroups' = after.subgroups
             /\ subgroup_memberships' = after.subgroup_memberships
             /\ clustered' = clustered \cup {c}
    /\ UNCHANGED << articles, groups, memberships, pc, runs, phase1, save, phase2,
                    chunker, tokenizer, gpt, classifier, units2 >>

NextRepeatable == ClusterCategory

SpecRepeatable == InitRepeatable /\ [][NextRepeatable]_vars

\* ------------------------------------------- chunk_summaries on its own
\* Document ids of a mapping handed to chunk_summaries.
Docs == 1..MaxDocs

\* A Python dict in iteration order: a sequence of distinct keys.
Mappings == { m \in SeqsUpTo(Docs, MaxDocs) : \A i, j \in DOMAIN m : m[i] = m[j] => i = j }

\* Values of the max_token_chunk argument: the default and budgets around
\* the token estimates of the documents.
Budgets == { 0, 12999, 13000, 26000, 38999, 39000, 52000, MAX_TOKEN_CHUNK, 78000 }

InitChunker ==
    /\ PipelineInit
    /\ TokenizerIdle
    /\ GptIdle
    /\ RepeatableIdle
    /\ Units2Idle
    /\ cs_summaries_dict \in Mappings
    /\ cs_max_token_chunk \in Budgets
    /\ cs_yielded = << >>
    /\ cs_done = FALSE

\* list(chunk_summaries(summaries_dict, max_token_chunk)).
CallChunkSummaries ==
    /\ ~ cs_done
    /\ cs_yielded' = chunk_summaries(cs_summaries_dict, cs_max_token_chunk)
    /\ cs_done' = TRUE
    /\ UNCHANGED << pipeline, units2, cs_summaries_dict, cs_max_token_chunk, tokenizer, gpt, repeatable >>

NextChunker == CallChunkSummaries

SpecChunker == InitChunker /\ [][NextChunker]_vars

\* ----------------------------------------- approximate_tokens on its own
\* Characters of a text: a blank and a letter.
Chars == { " ", "w" }

Texts == SeqsUpTo(Chars, MaxText)

InitTokens ==
    /\ PipelineInit
    /\ ChunkerIdle
    /\ GptIdle
    /\ RepeatableIdle
    /\ Units2Idle
    /\ text \in Texts
    /\ token_estimate = 0
    /\ tok_done = FALSE

\* approximate_tokens(text).
CallApproximateTokens ==
    /\ ~ tok_done
    /\ token_estimate' = approximate_tokens(split_len(text))
    /\ tok_done' = TRUE
    /\ UNCHANGED << pipeline, units2, chunker, text, gpt, repeatable >>

NextTokens == CallApproximateTokens

SpecTokens == InitTokens /\ [][NextTokens]_vars

\* ----------------------------------------------- llm_calls.call_gpt_api
\* str.strip(): leading and trailing whitespace removed.
RECURSIVE lstrip(_)
lstrip(t) == IF t # << >> /\ Head(t) = " " THEN lstrip(Tail(t)) ELSE t

RECURSIVE rstrip(_)
rstrip(t) ==
    IF t # << >> /\ t[Len(t)] = " " THEN rstrip(SubSeq(t, 1, Len(t) - 1)) ELSE t

strip(t) == rstrip(lstrip(t))

\* response.choices[0].message.content of a completion that carries a text.
Contents == SeqsUpTo(Chars, MaxContent)

\* Exceptions raised inside the try block: by client.chat.completions.create
\* (no connection, the timeout of REQUEST_TIMEOUT seconds, a non-2xx answer)
\* or by .strip() on a completion whose content is None.
AttemptErrors ==
    { "APIConnectionError", "APITimeoutError", "APIStatusError", "AttributeError" }

\* What one attempt ends with.
AttemptOutcomes ==
    { [ error |-> e, content |-> << >> ] : e \in AttemptErrors }
      \cup { [ error |-> "", content |-> c ] : c \in Contents }

\* Keys: a usable key, the empty string, or nothing at all.
ApiKeys == { Some("sk"), Some(""), None }

InitGpt ==
    /\ PipelineInit
    /\ ChunkerIdle
    /\ TokenizerIdle
    /\ RepeatableIdle
    /\ Units2Idle
    /\ gpt_pc = "entry"
    /\ api_key \in ApiKeys
    /\ env_key \in ApiKeys
    /\ attempt = 0
    /\ outcomes = << >>
    /\ slept = 0
    /\ gpt_result = None

\* Lines 19-23: without an argument the key comes from the environment, and
\* the call returns None when there is none (or an empty one).
GptEntry ==
    /\ gpt_pc = "entry"
    /\ LET key == IF api_key = None THEN env_key ELSE api_key
       IN  /\ api_key' = key
           /\ gpt_pc' = IF api_key = None /\ key \in { None, Some("") }
                        THEN "returned" ELSE "client"
    /\ UNCHANGED << pipeline, units2, chunker, tokenizer, repeatable,
                    env_key, attempt, outcomes, slept, gpt_result >>

\* Line 33: client = OpenAI(api_key=api_key), outside the try block: an
\* exception of the constructor leaves the function.
GptClient ==
    /\ gpt_pc = "client"
    /\ \E constructed \in BOOLEAN :
         gpt_pc' = IF constructed THEN "try" ELSE "raised"
    /\ UNCHANGED << pipeline, units2, chunker, tokenizer, repeatable,
                    api_key, env_key, attempt, outcomes, slept, gpt_result >>

\* Line 50: if attempt < MAX_RETRIES - 1.
\* (variant: the handler sleeps and retries after every failure)
RetryAgain_Always(n) == TRUE
RetryAgain(n) == n < MAX_RETRIES - 1

\* Lines 35-54: one pass of the try block. A completion returns its stripped
\* content; an exception is caught, and the handler either goes to sleep or
\* returns None.
GptAttempt ==
    /\ gpt_pc = "try"
    /\ \E outcome \in AttemptOutcomes :
         /\ outcomes' = Append(outcomes, outcome)
         /\ IF outcome.error = ""
            THEN /\ gpt_result' = Some(strip(outcome.content))
                 /\ gpt_pc' = "returned"
            ELSE /\ gpt_result' = None
                 /\ gpt_pc' = IF RetryAgain(attempt) THEN "sleep" ELSE "returned"
    /\ UNCHANGED << pipeline, units2, chunker, tokenizer, repeatable,
                    api_key, env_key, attempt, slept >>

\* Line 52 and the loop header: time.sleep(2), then the next value of
\* range(MAX_RETRIES); when the range is exhausted the function ends and
\* returns None.
GptSleep ==
    /\ gpt_pc = "sleep"
    /\ slept' = slept + RETRY_SLEEP
    /\ attempt' = attempt + 1
    /\ gpt_pc' = IF attempt + 1 < MAX_RETRIES THEN "try" ELSE "returned"
    /\ UNCHANGED << pipeline, units2, chunker, tokenizer, repeatable,
                    api_key, env_key, outcomes, gpt_result >>

NextGpt ==
    \/ GptEntry
    \/ GptClient
    \/ GptAttempt
    \/ GptSleep

\* A call that has started runs on: every statement completes, and each
\* request ends by its timeout at the latest.
SpecGpt == InitGpt /\ [][NextGpt]_vars /\ WF_vars(NextGpt)

\* ------------------------------------- handling of a classifier response
\* A response is written as text around one JSON document: pre and post are
\* the characters before and after it ("json" and "JSON" stand for the four
\* letters of the tag, "backtick" for one backtick, "x" for any other
\* character).  The document itself neither starts nor ends with whitespace
\* or a backtick.
WS == { " ", "\n" }
Tick == "backtick"

\* The array under the expected key has at most MaxEntries entries.
EntryTypes == { "object", "scalar" }
JsonDocs ==
    { Invalid, JsonDoc("scalar", "absent", << >>), JsonDoc("array", "absent", << >>),
      JsonDoc("object", "absent", << >>), JsonDoc("object", "null", << >>) }
    \cup { JsonDoc("object", "array", e) : e \in SeqsUpTo(EntryTypes, MaxEntries) }

Fence == << Tick, Tick, Tick >>
Forms == { "raw", "fenced", "tagged", "TAGGED", "glued", "prose" }
Render(form, doc) ==
    CASE form = "raw"    -> [ pre |-> << >>, doc |-> doc, post |-> << >> ]
      [] form = "fenced" -> [ pre |-> Fence \o << "\n" >>, doc |-> doc,
                              post |-> << "\n" >> \o Fence ]
      [] form = "tagged" -> [ pre |-> Fence \o << "json", "\n" >>, doc |-> doc,
                              post |-> << "\n" >> \o Fence ]
      [] form = "TAGGED" -> [ pre |-> Fence \o << "JSON", "\n" >>, doc |-> doc,
                              post |-> << "\n" >> \o Fence ]
      [] form = "glued"  -> [ pre |-> Fence \o << "json" >>, doc |-> doc, post |-> Fence ]
      [] form = "prose"  -> [ pre |-> << "x", " " >>, doc |-> doc, post |-> << >> ]
Padded(r, padded) ==
    IF padded THEN [ r EXCEPT !.pre = << "\n" >> \o @, !.post = @ \o << " ", "\n" >> ] ELSE r
Written == [ form : Forms, padded : BOOLEAN, doc : JsonDocs ]
TextOf(w) == Padded(Render(w.form, w.doc), w.padded)

\* str.strip(chars) on such a text.
RECURSIVE lstrip_chars(_, _)
lstrip_chars(t, chars) ==
    IF t # << >> /\ Head(t) \in chars THEN lstrip_chars(Tail(t), chars) ELSE t

RECURSIVE rstrip_chars(_, _)
rstrip_chars(t, chars) ==
    IF t # << >> /\ t[Len(t)] \in chars
    THEN rstrip_chars(SubSeq(t, 1, Len(t) - 1), chars) ELSE t

str_strip(r, chars) ==
    [ r EXCEPT !.pre = lstrip_chars(@, chars), !.post = rstrip_chars(@, chars) ]

\* re.sub(r'^json\s+', '', cleaned, flags=re.IGNORECASE) leaving the tag in.
sub_json_tag_Kept(r) == r

\* re.sub(r'^json\s+', '', cleaned, flags=re.IGNORECASE)
sub_json_tag(r) ==
    IF Len(r.pre) >= 2 /\ r.pre[1] \in { "json", "JSON" } /\ r.pre[2] \in WS
    THEN [ r EXCEPT !.pre = lstrip_chars(Tail(@), WS) ]
    ELSE r

\* Lines 225-226 and 360-361.
clean(r) == sub_json_tag(str_strip(str_strip(r, WS), { Tick }))

\* json.loads: the document, when only whitespace surrounds it and it is
\* JSON; Invalid stands for JSONDecodeError.
json_loads(r) ==
    IF Range(r.pre) \subseteq WS /\ Range(r.post) \subseteq WS THEN r.doc ELSE Invalid

\* Lines 227-231: data.get("assignments", []) inside try ... except
\* Exception; an AttributeError of a non-object is caught like a decode
\* error.  NotAList is the None found under a null key.
NotAList == << "None" >>
chunk_assignments(d) ==
    IF d.top # "object" THEN << >>
    ELSE CASE d.key = "absent" -> << >>
           [] d.key = "null"   -> NotAList
           [] d.key = "array"  -> d.entries

\* What the claim calls a malformed response.
Malformed(w) ==
    LET d == json_loads(clean(TextOf(w)))
    IN  \/ d.top # "object"
        \/ d.key \in { "absent", "null" }
        \/ \E i \in DOMAIN d.entries : d.entries[i] # "object"

Handled(w, results) == [ malformed |-> Malformed(w), results |-> results ]

InitParser ==
    /\ PipelineInit
    /\ ChunkerIdle
    /\ TokenizerIdle
    /\ GptIdle
    /\ RepeatableIdle
    /\ DedupIdle
    /\ CycleIdle
    /\ stage \in { "phase1", "phase2" }
    /\ n_chunks \in 1..MaxParseChunks
    /\ parse_i = 1
    /\ sent = NoResponse
    /\ data = Invalid
    /\ parsed_assignments = << >>
    /\ handled = << >>
    /\ parse_pc = "chunks"

\* two_phase_grouping_with_predefined_categories, lines 225-234, for one
\* chunk: all_assignments.extend(chunk_assignments) is outside the try, and
\* raises TypeError on None.
Phase1Response ==
    /\ stage = "phase1"
    /\ parse_pc = "chunks"
    /\ \E w \in Written :
         LET d == json_loads(clean(TextOf(w)))
             ca == chunk_assignments(d)
         IN  /\ sent' = w
             /\ data' = d
             /\ IF ca = NotAList
                THEN /\ parse_pc' = "raised"
                     /\ UNCHANGED << parsed_assignments, parse_i >>
                     /\ handled' = Append(handled, Handled(w, 0))
                ELSE /\ parsed_assignments' = parsed_assignments \o ca
                     /\ handled' = Append(handled, Handled(w, Len(ca)))
                     /\ parse_i' = parse_i + 1
                     /\ parse_pc' = IF parse_i = n_chunks THEN "grouping" ELSE "chunks"
    /\ UNCHANGED << pipeline, units1, dedup, cycle, stage, n_chunks >>

\* Lines 241-247: assn.get raises AttributeError on an entry that is not an
\* object, and nothing catches it; otherwise the result is returned.
Phase1Group ==
    /\ stage = "phase1"
    /\ parse_pc = "grouping"
    /\ parse_pc' = IF \E i \in DOMAIN parsed_assignments : parsed_assignments[i] # "object"
                   THEN "raised" ELSE "returned"
    /\ UNCHANGED << pipeline, units1, dedup, cycle, stage, n_chunks, parse_i, sent, data,
                    parsed_assignments, handled >>

\* group_articles_within_category, lines 360-400, for one chunk: only
\* JSONDecodeError is caught around json.loads, data.get is outside any try,
\* and the rows of the chunk are written in a try that rolls back on any
\* exception (grp.get on an entry that is not an object).
Phase2Response ==
    /\ stage = "phase2"
    /\ parse_pc = "chunks"
    /\ \E w \in Written :
         LET d == json_loads(clean(TextOf(w)))
             groups_ == IF d.key = "array" THEN d.entries ELSE << >>
             committed == IF \A i \in DOMAIN groups_ : groups_[i] = "object"
                          THEN Len(groups_) ELSE 0
         IN  /\ sent' = w
             /\ data' = d
             /\ IF d.top \in { "scalar", "array" }
                THEN /\ parse_pc' = "raised"
                     /\ parse_i' = parse_i
                     /\ handled' = Append(handled, Handled(w, 0))
                ELSE /\ handled' = Append(handled, Handled(w, committed))
                     /\ parse_i' = parse_i + 1
                     /\ parse_pc' = IF parse_i = n_chunks THEN "returned" ELSE "chunks"
    /\ UNCHANGED << pipeline, units1, dedup, cycle, stage, n_chunks, parsed_assignments >>

NextParser ==
    \/ Phase1Response
    \/ Phase1Group
    \/ Phase2Response

SpecParser == InitParser /\ [][NextParser]_vars

\* ------------------------------------- krebsonsecurityscraper.py: duplicates
\* A stored article is kept by what is_duplicate reads of it: its source, and
\* for its title and its content the SequenceMatcher figures against the
\* candidate's, both texts normalised by clean_text: m matching characters
\* out of t = len(a) + len(b), ratio() = 2.0 * m / t.
OwnSource == "krebs"
Sources == { OwnSource, "schneier" }
TitleLen == 20
ContentLen == 40
TitleSims == { [ m |-> m, t |-> TitleLen ] : m \in { 8, 9, 10 } }
ContentSims == { [ m |-> m, t |-> ContentLen ] : m \in { 16, 17, 18 } }
StoredArticles == [ source : Sources, title : TitleSims, content : ContentSims ]
StoredLinks == 1..MaxStored
CandidateLinks == 1..(MaxStored + 1)
Stores == UNION { [ ls -> StoredArticles ] : ls \in SUBSET StoredLinks }

\* is_similar_content with a threshold that nothing but equal texts passes.
is_similar_content_Equal(sim, num, den) == 2 * sim.m = sim.t

\* Line 48: ratio() > threshold, for the threshold num/den.
is_similar_content(sim, num, den) == 2 * sim.m * den > num * sim.t

\* is_duplicate reading the articles of every source.
is_duplicate_AnySource(st, link, fault) ==
    IF fault = "link" THEN [ dup |-> FALSE, failed |-> TRUE ]
    ELSE IF link \in DOMAIN st THEN [ dup |-> TRUE, failed |-> FALSE ]
    ELSE IF fault = "source" THEN [ dup |-> FALSE, failed |-> TRUE ]
    ELSE [ dup |-> \E l \in DOMAIN st :
                      /\ is_similar_content(st[l].title, 9, 10)
                      /\ is_similar_content(st[l].content, 17, 20),
           failed |-> FALSE ]

\* is_duplicate answering True when the storage fails.
is_duplicate_FaultIsDuplicate(st, link, fault) ==
    IF fault = "link" THEN [ dup |-> TRUE, failed |-> TRUE ]
    ELSE IF link \in DOMAIN st THEN [ dup |-> TRUE, failed |-> FALSE ]
    ELSE IF fault = "source" THEN [ dup |-> TRUE, failed |-> TRUE ]
    ELSE [ dup |-> \E l \in DOMAIN st :
                      /\ st[l].source = OwnSource
                      /\ is_similar_content(st[l].title, 9, 10)
                      /\ is_similar_content(st[l].content, 17, 20),
           failed |-> FALSE ]

\* Lines 50-73.  fault names the statement at which sqlite3 raises: the
\* SELECT by link (or the connect before it), the SELECT by source, or none.
is_duplicate(st, link, fault) ==
    IF fault = "link" THEN [ dup |-> FALSE, failed |-> TRUE ]
    ELSE IF link \in DOMAIN st THEN [ dup |-> TRUE, failed |-> FALSE ]
    ELSE IF fault = "source" THEN [ dup |-> FALSE, failed |-> TRUE ]
    ELSE [ dup |-> \E l \in DOMAIN st :
                      /\ st[l].source = OwnSource
                      /\ is_similar_content(st[l].title, 9, 10)
                      /\ is_similar_content(st[l].content, 17, 20),
           failed |-> FALSE ]

InitDedup ==
    /\ PipelineInit
    /\ ChunkerIdle
    /\ TokenizerIdle
    /\ GptIdle
    /\ RepeatableIdle
    /\ ParserIdle
    /\ CycleIdle
    /\ existing \in Stores
    /\ cand_link \in CandidateLinks
    /\ read_fault \in { "none", "link", "source" }
    /\ is_dup = FALSE
    /\ read_failed = FALSE
    /\ dup_pc = "check"

\* Line 130: the call of is_duplicate for the entry.
CheckDuplicate ==
    /\ dup_pc = "check"
    /\ LET r == is_duplicate(existing, cand_link, read_fault)
       IN  /\ is_dup' = r.dup
           /\ read_failed' = r.failed
    /\ dup_pc' = "checked"
    /\ UNCHANGED << pipeline, units1, parser, cycle, existing, cand_link, read_fault >>

\* Lines 130-160: a duplicate is skipped; otherwise INSERT OR REPLACE by
\* link, which a storage error of its own leaves undone.
StoreEntry ==
    /\ dup_pc = "checked"
    /\ IF is_dup
       THEN /\ dup_pc' = "skipped"
            /\ UNCHANGED existing
       ELSE \E write_ok \in BOOLEAN :
              IF write_ok
              THEN /\ existing' = [ l \in DOMAIN existing \cup { cand_link } |->
                                    IF l = cand_link
                                    THEN [ source |-> OwnSource,
                                           title |-> [ m |-> TitleLen \div 2, t |-> TitleLen ],
                                           content |-> [ m |-> ContentLen \div 2,
                                                         t |-> ContentLen ] ]
                                    ELSE existing[l] ]
                   /\ dup_pc' = "stored"
              ELSE /\ dup_pc' = "store_error"
                   /\ UNCHANGED existing
    /\ UNCHANGED << pipeline, units1, parser, cycle, cand_link, read_fault, is_dup, read_failed >>

NextDedup ==
    \/ CheckDuplicate
    \/ StoreEntry

SpecDedup == InitDedup /\ [][NextDedup]_vars

\* ------------------------------------------------ main.py: the background loop
\* "not api_key" with only None counting as no key.
KeyMissing_OnlyNone(k) == k = None

\* main.py line 80, pipeline.py line 24: not api_key.
KeyMissing(k) == k = None \/ k = Some("")

\* What an exception does to the process: it leaves run_full_pipeline_headless,
\* and under main() it leaves run_full_cycle and background_loop too, which
\* have no try, so the loop thread ends.
Raised == IF entry = "main" THEN "dead" ELSE "raised"

InitCycle ==
    /\ PipelineInit
    /\ ChunkerIdle
    /\ TokenizerIdle
    /\ GptIdle
    /\ RepeatableIdle
    /\ ParserIdle
    /\ DedupIdle
    /\ entry \in { "main", "headless" }
    /\ environ_key \in ApiKeys
    /\ arg_key \in IF entry = "main" THEN { None } ELSE ApiKeys
    /\ loop_pc = IF entry = "main" THEN "main" ELSE "pipeline"
    /\ cycles = 0
    /\ calls = << >>
    /\ next_cat = 1
    /\ logs = "none"
    /\ touched = FALSE

\* main.py lines 77-86: main() exits when the environment has no key, and
\* otherwise starts the thread running background_loop(api_key).
Main ==
    /\ loop_pc = "main"
    /\ IF KeyMissing(environ_key)
       THEN /\ loop_pc' = "exited"
            /\ UNCHANGED << arg_key, cycles >>
       ELSE /\ loop_pc' = "scrape"
            /\ arg_key' = environ_key
            /\ cycles' = 1
    /\ UNCHANGED << pipeline, units1, parser, dedup, entry, environ_key, calls, next_cat,
                    logs, touched >>

\* main.py lines 16-31 and 55: every scraper runs in a thread whose wrapper
\* catches CalledProcessError, so a failing script is only reported.
RunScrapers ==
    /\ loop_pc = "scrape"
    /\ \E script_failed \in BOOLEAN : loop_pc' = "dates"
    /\ touched' = TRUE
    /\ UNCHANGED << pipeline, units1, parser, dedup, entry, environ_key, arg_key, cycles,
                    calls, next_cat, logs >>

\* main.py line 59: run_scraper("date.py") is called with check=True and
\* outside any try.
StandardizeDates ==
    /\ loop_pc = "dates"
    /\ \E date_ok \in BOOLEAN : loop_pc' = IF date_ok THEN "pipeline" ELSE "dead"
    /\ UNCHANGED << pipeline, units1, parser, dedup, entry, environ_key, arg_key, cycles,
                    calls, next_cat, logs, touched >>

\* pipeline.py lines 22-27.
PipelineEntry ==
    /\ loop_pc = "pipeline"
    /\ IF arg_key = None /\ KeyMissing(environ_key)
       THEN /\ logs' = "error"
            /\ loop_pc' = "returned"
       ELSE /\ logs' = "none"
            /\ loop_pc' = "extract"
    /\ calls' = << >>
    /\ next_cat' = 1
    /\ UNCHANGED << pipeline, units1, parser, dedup, entry, environ_key, arg_key, cycles,
                    touched >>

\* pipeline.py lines 29-42: company names, CVE mentions, CVE details.
ExtractSteps ==
    /\ loop_pc = "extract"
    /\ calls' = Append(calls, "extract")
    /\ touched' = TRUE
    /\ loop_pc' = "select"
    /\ UNCHANGED << pipeline, units1, parser, dedup, entry, environ_key, arg_key, cycles,
                    next_cat, logs >>

\* pipeline.py lines 45-55 and 62-63: the Phase 1 selection; with nothing
\* to classify step 5 is next.
SelectUngrouped ==
    /\ loop_pc = "select"
    /\ calls' = Append(calls, "select")
    /\ \E some \in BOOLEAN : loop_pc' = IF some THEN "classify" ELSE "phase2"
    /\ UNCHANGED << pipeline, units1, parser, dedup, entry, environ_key, arg_key, cycles,
                    next_cat, logs, touched >>

\* pipeline.py lines 56-61: two_phase_grouping_with_predefined_categories
\* returns groups, returns none, or raises (a null or non-object entry under
\* "assignments", the client constructor).
ClassifyAll ==
    /\ loop_pc = "classify"
    /\ calls' = Append(calls, "classify")
    /\ \E outcome \in { "groups", "none", "raised" } :
         loop_pc' = CASE outcome = "groups" -> "save"
                      [] outcome = "none"   -> "phase2"
                      [] outcome = "raised" -> Raised
    /\ UNCHANGED << pipeline, units1, parser, dedup, entry, environ_key, arg_key, cycles,
                    next_cat, logs, touched >>

\* pipeline.py line 58: save_two_phase_groups catches its storage errors.
SaveGroups ==
    /\ loop_pc = "save"
    /\ calls' = Append(calls, "save")
    /\ \E storage_ok \in BOOLEAN : loop_pc' = "phase2"
    /\ UNCHANGED << pipeline, units1, parser, dedup, entry, environ_key, arg_key, cycles,
                    next_cat, logs, touched >>

\* pipeline.py lines 67-72: one call of group_articles_within_category for
\* the next category, which returns or raises (a response that is JSON but
\* not an object, the client constructor, a failing read); after the last
\* category the logs are returned, and run_full_cycle returns to the loop.
SubgroupCategory ==
    /\ loop_pc = "phase2"
    /\ calls' = Append(calls, PREDEFINED_CATEGORIES[next_cat])
    /\ \E outcome \in { "returned", "raised" } :
         IF outcome = "raised"
         THEN /\ loop_pc' = Raised
              /\ UNCHANGED << next_cat, logs >>
         ELSE IF next_cat < Len(PREDEFINED_CATEGORIES)
         THEN /\ next_cat' = next_cat + 1
              /\ UNCHANGED << loop_pc, logs >>
         ELSE /\ logs' = "complete"
              /\ loop_pc' = IF entry = "main" THEN "sleep" ELSE "returned"
              /\ UNCHANGED next_cat
    /\ UNCHANGED << pipeline, units1, parser, dedup, entry, environ_key, arg_key, cycles,
                    touched >>

\* main.py lines 72-75: after the sleep the loop calls run_full_cycle again.
Sleep ==
    /\ loop_pc = "sleep"
    /\ cycles < MaxCycles
    /\ cycles' = cycles + 1
    /\ loop_pc' = "scrape"
    /\ UNCHANGED << pipeline, units1, parser, dedup, entry, environ_key, arg_key, calls,
                    next_cat, logs, touched >>

NextCycle ==
    \/ Main
    \/ RunScrapers
    \/ StandardizeDates
    \/ PipelineEntry
    \/ ExtractSteps
    \/ SelectUngrouped
    \/ ClassifyAll
    \/ SaveGroups
    \/ SubgroupCategory
    \/ Sleep

SpecCycle == InitCycle /\ [][NextCycle]_vars

\* ================================================================ claims
IsPrefix(s, t) == Len(s) <= Len(t) /\ \A i \in DOMAIN s : s[i] = t[i]

\* The step on which save_two_phase_groups commits.
CommitStep == pc = "save_commit" /\ save_log' = "saved"

\* The state right after a committed save, before step 5 starts.
JustSaved == pc = "phase2" /\ save_log = "saved"

\* Group ids created by the save that has just committed.
NewGroupIds == (Len(groups) - Len(result) + 1)..Len(groups)

\* C1: in every reachable state of the store, whatever the classifier
\* answered and whether saves committed or rolled back, an article_link has
\* at most one row in two_phase_article_group_memberships.
C1_AtMostOneMembership ==
    \A a \in Links : Cardinality(MembershipsOf(memberships, a)) <= 1

\* A committed save whose result listed one article under two categories, the
\* article holding a membership from an earlier save before it.
C1_Witness ==
    /\ JustSaved
    /\ \E a \in Links :
         /\ \E g1, g2 \in DOMAIN result :
              /\ result[g1].main_topic # result[g2].main_topic
              /\ a \in Range(result[g1].articles) \cap Range(result[g2].articles)
         /\ \E m \in superseded : m[1] = a /\ m[2] \notin NewGroupIds
         /\ Cardinality(MembershipsOf(memberships, a)) = 1

\* C2: a committed Phase 1 run adds exactly one row to
\* two_phase_article_groups for each category that received an article
\* ("Other" included) and none for the other categories.
C2_OneRowPerCategory ==
    [][ CommitStep =>
          \A c \in CategorySet :
            Cardinality({ g \in (Len(groups) + 1)..Len(groups') : groups'[g] = c })
              = IF \E g \in DOMAIN result : result[g].main_topic = c THEN 1 ELSE 0 ]_vars

\* C3: every committed application of Phase 1, a repeated one with the same
\* assignments included, leaves exactly one membership row for each article
\* it assigned.
C3_ExactlyOneAfterSave ==
    JustSaved =>
        \A a \in AssignedIds(result) :
            Cardinality(MembershipsOf(memberships, a)) = 1

\* A committed save that assigned every article to the category it already
\* was in: each superseded row was a committed row of a group of that topic.
C3_Witness ==
    /\ JustSaved
    /\ result # << >>
    /\ \A g \in DOMAIN result : \A a \in Range(result[g].articles) :
         /\ \E m \in superseded :
              /\ m[1] = a
              /\ m[2] \notin NewGroupIds
              /\ groups[m[2]] = result[g].main_topic
         /\ Cardinality(MembershipsOf(memberships, a)) = 1

\* C4: every row of two_phase_article_groups has a main_topic of the fixed
\* list, and an assignment whose category is missing or outside the list puts
\* its article into the "Other" group of the result.
C4_CategoryCoercion ==
    /\ \A g \in DOMAIN groups : groups[g] \in CategorySet
    /\ pc = "grouped" =>
         /\ \A g \in DOMAIN result : result[g].main_topic \in CategorySet
         /\ \A i \in DOMAIN all_assignments :
              ( /\ all_assignments[i].article_id # NoId
                /\ all_assignments[i].category \notin CategorySet )
              => \E g \in DOMAIN result :
                   /\ result[g].main_topic = "Other"
                   /\ all_assignments[i].article_id \in Range(result[g].articles)

\* The classifier returned one assignment with an unknown category and one
\* without a category, and the result was built.
C4_Witness ==
    /\ pc = "grouped"
    /\ \E i, j \in DOMAIN all_assignments :
         /\ all_assignments[i].article_id # NoId
         /\ all_assignments[i].category = "Quantum Computing"
         /\ all_assignments[j].article_id # NoId
         /\ all_assignments[j].category = NoCategory
    /\ \E g \in DOMAIN result : result[g].main_topic = "Other"

\* C5: the articles a pipeline run sends to the Phase 1 classifier are exactly
\* the stored articles without a membership row, and none of them holds a
\* membership while it is being classified.
C5_SelectsExactlyUngrouped ==
    [][ /\ (pc = "idle" /\ pc' # "idle") =>
              UNION { Range(c) : c \in Range(chunk_summaries(summaries_dict', MAX_TOKEN_CHUNK)) }
                = { a \in articles : MembershipsOf(memberships, a) = {} }
        /\ pc' = "classify" =>
              \A a \in Range(summaries_dict') : MembershipsOf(memberships', a) = {} ]_vars

\* A later run that classifies one article while another stored article,
\* grouped by an earlier run, is left out.
C5_Witness ==
    /\ pc = "classify"
    /\ runs > 1
    /\ summaries_dict # << >>
    /\ \E a \in articles \ Range(summaries_dict) : MembershipsOf(memberships, a) # {}

\* C6: an article that was sent to the classifier and named by no response
\* is a stored article without a membership for the rest of that run and
\* until the next run has read its selection, and it is in that selection.
C6_UnansweredStaysSelectable ==
    /\ \A a \in unanswered : a \in articles /\ MembershipsOf(memberships, a) = {}
    /\ pc = "classify" => unanswered \subseteq Range(summaries_dict)

\* A later run classifying an article the previous run left unanswered, after
\* that run had saved a group for another article.
C6_Witness ==
    /\ pc = "classify"
    /\ runs > 1
    /\ unanswered # {}
    /\ unanswered \subseteq Range(summaries_dict)
    /\ memberships # {}

\* C7: a committed save changes membership rows only of articles that were in
\* the selection read at the start of the run.
C7_OnlyReadIds ==
    [][ CommitStep =>
          \A a \in Links \ Range(summaries_dict) :
            MembershipsOf(memberships', a) = MembershipsOf(memberships, a) ]_vars

\* C8: no step, an interrupted save included, makes a stored membership
\* disappear without a replacement or gives an article two memberships.
C8_DeleteInsertAtomic ==
    [][ \A a \in Links :
          /\ Cardinality(MembershipsOf(memberships', a)) <= 1
          /\ MembershipsOf(memberships, a) # {} => MembershipsOf(memberships', a) # {} ]_vars

\* A save hit a storage error after its DELETE had removed a stored row in
\* the transaction; the row is still in the store.
C8_Witness ==
    /\ pc = "phase2"
    /\ save_log = "error"
    /\ \E m \in superseded : m \in memberships

\* C9: no step changes or removes a row of two_phase_article_groups; the
\* membership rows a step removes belong to articles the save is assigning,
\* and the rows it adds point to groups created by the same save.
C9_GroupsAppendOnly ==
    [][ /\ IsPrefix(groups, groups')
        /\ \A m \in memberships \ memberships' : m[1] \in AssignedIds(result)
        /\ \A m \in memberships' \ memberships : m[2] \in (Len(groups) + 1)..Len(groups') ]_vars

\* A committed save created a group although an older group with the same
\* main_topic exists, and moved an article out of an older group.
C9_Witness ==
    /\ JustSaved
    /\ \E old \in DOMAIN groups \ NewGroupIds : \E new \in NewGroupIds :
         /\ groups[old] = groups[new]
         /\ \E m \in superseded : m[2] = old
         /\ \E m \in memberships : m[2] = new

\* C10: the selection a Phase 2 run for a category has just read holds no
\* article that already has a membership in a subgroup of that category.
C10_SubgroupExclusion ==
    (pc = "sub_chunk" /\ sub_chunk_i = 1) =>
        \A a \in Range(sub_dict) :
            ~ \E sm \in subgroup_memberships :
                sm[1] = a /\ subgroups[sm[2]] = Category

\* A Phase 2 run for a category selected one article and left out another
\* article of the category that an earlier run had subgrouped.
C10_Witness ==
    /\ pc = "sub_chunk"
    /\ sub_chunk_i = 1
    /\ sub_dict # << >>
    /\ \E a \in articles \ Range(sub_dict) :
         /\ \E m \in memberships : m[1] = a /\ groups[m[2]] = Category
         /\ \E sm \in subgroup_memberships : sm[1] = a /\ subgroups[sm[2]] = Category

\* Rows of two_phase_subgroup_memberships of one article in subgroups of one
\* category.
SubgroupRowsOf(a, c) ==
    { sm \in subgroup_memberships : sm[1] = a /\ subgroups[sm[2]] = c }

\* C11: in every reachable state of the store, whatever the classifier
\* answered, an article has at most one row of two_phase_subgroup_memberships
\* among the subgroups of any one category.
C11_OneSubgroupPerCategory ==
    \A a \in Links : \A c \in CategorySet : Cardinality(SubgroupRowsOf(a, c)) <= 1

\* C12: every row of two_phase_subgroup_memberships links an article to a
\* subgroup whose category is the main_topic of the group the article is a
\* member of.
C12_SubgroupInOwnCategory ==
    \A sm \in subgroup_memberships :
        \E m \in memberships : m[1] = sm[1] /\ groups[m[2]] = subgroups[sm[2]]

\* C13: no step removes or changes a row of two_phase_subgroups or of
\* two_phase_subgroup_memberships (an insert that conflicts with a stored row
\* leaves that row as it is), and only the clustering step of Phase 2 adds
\* rows: Phase 1 and its save leave both tables as they are.
C13_SubgroupsAppendOnly ==
    [][ /\ IsPrefix(subgroups, subgroups')
        /\ subgroup_memberships \subseteq subgroup_memberships'
        /\ pc # "sub_chunk" =>
              UNCHANGED << subgroups, subgroup_memberships >> ]_vars

\* An article subgrouped by one Phase 2 run was listed again by a later run
\* for another category: the older row is still stored beside the new one.
C13_Witness ==
    \E a \in Links : \E s1, s2 \in DOMAIN subgroups :
        /\ s1 < s2
        /\ subgroups[s1] # subgroups[s2]
        /\ << a, s1 >> \in subgroup_memberships
        /\ << a, s2 >> \in subgroup_memberships

\* Sum of the token estimates of the documents of a chunk.
RECURSIVE TokenSum(_)
TokenSum(c) ==
    IF c = << >> THEN 0
    ELSE approximate_tokens(WordCount(Head(c))) + TokenSum(Tail(c))

\* The chunks of a sequence of chunks, concatenated in order.
RECURSIVE Concat(_)
Concat(cs) == IF cs = << >> THEN << >> ELSE Head(cs) \o Concat(Tail(cs))

\* The document exceeds the budget of the call on its own.
Oversize(d) == approximate_tokens(WordCount(d)) > cs_max_token_chunk

\* C15: for every mapping and budget, the chunks chunk_summaries yields
\* have pairwise disjoint id sets whose union is the id set of the input: each
\* document is in exactly one chunk, once.
C15_ChunkPartition ==
    cs_done =>
        /\ \A i, j \in DOMAIN cs_yielded :
              i # j => Range(cs_yielded[i]) \cap Range(cs_yielded[j]) = {}
        /\ \A i \in DOMAIN cs_yielded :
              Cardinality(Range(cs_yielded[i])) = Len(cs_yielded[i])
        /\ UNION { Range(cs_yielded[i]) : i \in DOMAIN cs_yielded }
              = Range(cs_summaries_dict)

\* A call that yielded an oversize document alone and several other
\* documents together in another chunk.
C15_Witness ==
    /\ cs_done
    /\ Len(cs_summaries_dict) = MaxDocs
    /\ \E i, j \in DOMAIN cs_yielded :
         /\ Len(cs_yielded[i]) = 1 /\ Oversize(cs_yielded[i][1])
         /\ Len(cs_yielded[j]) > 1

\* C16: every chunk yielded has a token sum no greater than the budget,
\* unless it holds a single document whose own estimate exceeds the budget;
\* and every such document is yielded, alone in a chunk.
C16_ChunkBudget ==
    cs_done =>
        /\ \A i \in DOMAIN cs_yielded :
              \/ TokenSum(cs_yielded[i]) <= cs_max_token_chunk
              \/ Len(cs_yielded[i]) = 1 /\ Oversize(cs_yielded[i][1])
        /\ \A d \in Range(cs_summaries_dict) :
              Oversize(d) => \E i \in DOMAIN cs_yielded : cs_yielded[i] = << d >>

\* A call whose input had an oversize document between documents that fit:
\* it was yielded alone, between a chunk that fills the budget exactly and
\* another chunk.
C16_Witness ==
    /\ cs_done
    /\ \E i \in DOMAIN cs_yielded :
         /\ 1 < i /\ i < Len(cs_yielded)
         /\ Len(cs_yielded[i]) = 1 /\ Oversize(cs_yielded[i][1])
         /\ TokenSum(cs_yielded[i - 1]) = cs_max_token_chunk
         /\ ~ Oversize(cs_yielded[i + 1][1])

\* C17: the chunks, concatenated in yield order, are the input in its
\* iteration order, and a chunk is closed only when the next document would
\* overflow it: the token sum of a chunk plus the estimate of the first
\* document of the chunk after it exceeds the budget.
C17_GreedyInOrder ==
    cs_done =>
        /\ Concat(cs_yielded) = cs_summaries_dict
        /\ \A i \in 1..(Len(cs_yielded) - 1) :
              TokenSum(cs_yielded[i])
                + approximate_tokens(WordCount(cs_yielded[i + 1][1]))
              > cs_max_token_chunk

\* A call without oversize documents that packed two documents into one
\* chunk, closed it below the budget and went on to a further chunk.
C17_Witness ==
    /\ cs_done
    /\ \A d \in Range(cs_summaries_dict) : ~ Oversize(d)
    /\ \E i \in 1..(Len(cs_yielded) - 1) :
         /\ Len(cs_yielded[i]) > 1
         /\ TokenSum(cs_yielded[i]) < cs_max_token_chunk

\* Number of whitespace-delimited tokens of a text: the positions where a
\* token starts.
WordCountOf(t) ==
    Cardinality({ i \in DOMAIN t : t[i] # " " /\ (i = 1 \/ t[i - 1] = " ") })

\* round(n / d) for n >= 0 and d > 0, a tie going to the even neighbour.
Round(n, d) ==
    LET q == n \div d
        r == n % d
    IN  IF 2 * r < d THEN q
        ELSE IF 2 * r > d THEN q + 1
        ELSE IF q % 2 = 0 THEN q ELSE q + 1

\* C18: for every text, the approximate token count is round(word_count * 1.3),
\* word_count being the number of whitespace-delimited tokens of the text.
C18_RoundedEstimate ==
    tok_done => token_estimate = Round(13 * WordCountOf(text), 10)

\* call_gpt_api has left: by a return or by an exception.
GptTerminated == gpt_pc \in { "returned", "raised" }

\* What holds of the attempts at every point of a call.
GptRetryDiscipline ==
    /\ Len(outcomes) <= MAX_RETRIES
    /\ \A i \in 1..(Len(outcomes) - 1) : outcomes[i].error # ""
    /\ (gpt_pc = "returned" /\ outcomes # << >>) =>
         LET last == outcomes[Len(outcomes)]
         IN  IF last.error = ""
             THEN /\ gpt_result = Some(strip(last.content))
                  /\ slept = RETRY_SLEEP * (Len(outcomes) - 1)
             ELSE /\ Len(outcomes) = MAX_RETRIES
                  /\ gpt_result = None
                  /\ slept = RETRY_SLEEP * (MAX_RETRIES - 1)

\* C19: call_gpt_api makes at most 3 attempts and always terminates; no
\* attempt follows a successful one, whose (stripped) text is returned; it has
\* slept 2 seconds after each failed attempt but the third, and it returns
\* None after the third failed attempt.
C19_BoundedRetries == [] GptRetryDiscipline /\ <> GptTerminated

\* A call that returned None after three failed attempts and two sleeps.
C19_Witness ==
    /\ gpt_pc = "returned"
    /\ Len(outcomes) = MAX_RETRIES
    /\ \A i \in DOMAIN outcomes : outcomes[i].error # ""
    /\ slept = RETRY_SLEEP * (MAX_RETRIES - 1)
    /\ gpt_result = None

\* C20: call_gpt_api never leaves by an exception, whatever fails, and a
\* call in which no attempt succeeded returns None.
C20_FailureIsReturned ==
    /\ gpt_pc # "raised"
    /\ ( /\ gpt_pc = "returned"
         /\ \A i \in DOMAIN outcomes : outcomes[i].error # "" ) => gpt_result = None

\* The subgroup tables without the surrogate ids: for each category, the
\* member sets of its subgroups in the order of their creation.
Canonical(t) ==
    [ c \in CategorySet |->
        LET ids == SelectSeq([ i \in 1..Len(t.subgroups) |-> i ],
                             LAMBDA i : t.subgroups[i] = c)
        IN  [ k \in DOMAIN ids |->
                { sm[1] : sm \in { x \in t.subgroup_memberships : x[2] = ids[k] } } ] ]

\* Phase 2 for category c on the store of the state with subgroup tables t.
Phase2On(t, c) ==
    group_articles_within_category(
        articles, groups, memberships, t.subgroups, t.subgroup_memberships, c, classifier)

\* The Phase 2 selection of category c with subgroup tables t.
SelectionOn(t, c) ==
    get_articles_in_category_not_subgrouped(
        articles, groups, memberships, t.subgroups, t.subgroup_memberships, c)

\* C14: with a classifier whose answer depends only on the chunk, Phase 2
\* for a category c1 and then for another category c2 leaves the same
\* subgroups and subgroup memberships, up to the subgroup_id values, as c2 and
\* then c1; and the run for c1 does not change what c2 selects.
C14_CategoryOrderIrrelevant ==
    LET now == [ subgroups |-> subgroups, subgroup_memberships |-> subgroup_memberships ]
    IN  \A c1, c2 \in OrderCategories :
            c1 # c2 =>
                /\ Canonical(Phase2On(Phase2On(now, c1), c2))
                     = Canonical(Phase2On(Phase2On(now, c2), c1))
                /\ SelectionOn(Phase2On(now, c1), c2) = SelectionOn(now, c2)

\* Both categories were clustered, the later one of the list first; each got
\* a subgroup, and a subgroup of one lists an article grouped under the other.
C14_Witness ==
    /\ clustered = OrderCategories
    /\ subgroups # << >>
    /\ subgroups[1] = "Other"
    /\ \E s \in DOMAIN subgroups : subgroups[s] = PREDEFINED_CATEGORIES[1]
    /\ \E sm \in subgroup_memberships : \E m \in memberships :
         m[1] = sm[1] /\ groups[m[2]] # subgroups[sm[2]]

\* C21: when the classifier call for a chunk fails, the chunk is skipped, the
\* answers to the other chunks of the run are persisted, and the articles of
\* the failed chunk are still without a membership after the save, so that the
\* next run selects them again.
C21_FailedChunkStaysSelectable ==
    JustSaved =>
        /\ \A a \in AssignedIds(result) : MembershipsOf(memberships, a) # {}
        /\ \A a \in skipped : MembershipsOf(memberships, a) = {}

\* C23: a storage error while save_two_phase_groups persists one group
\* discards that group only: the rows of the groups stored before it in the
\* same run are in the store after the error.
C23_OnlyFailedUnitDiscarded ==
    [][ ( /\ pc \in { "save_group", "save_delete", "save_insert" }
          /\ save_log' = "error" )
        => Len(groups') >= Len(groups) + (grp_i - 1) ]_vars

\* C22: a response that is not JSON, is JSON but not an object, lacks the
\* expected key, has null under it, or has entries that are not objects
\* counts as zero results for its chunk: neither function raises, and the
\* chunk contributes nothing.
C22_MalformedIsZeroResults ==
    /\ parse_pc # "raised"
    /\ \A i \in DOMAIN handled : handled[i].malformed => handled[i].results = 0

\* C27: a JSON object given raw, inside triple-backtick fences, or inside
\* fences with a json language tag parses to that same object.
ContractForms == { "raw", "fenced", "tagged", "TAGGED" }
C27_FencesAndTagIgnored ==
    (sent.form \in ContractForms /\ sent.doc.top = "object") => data = sent.doc

C27_Witness ==
    /\ parse_pc = "returned"
    /\ Len(handled) = MaxParseChunks
    /\ sent.form = "tagged"
    /\ sent.padded
    /\ sent.doc.key = "array"
    /\ sent.doc.entries # << >>
    /\ data = sent.doc
    /\ handled[1].results > 0

\* The stored articles of the scraper's source whose title and content are
\* at or above (strictly above, when strict) 0.90 and 0.85 in similarity.
Percent(sim) == (200 * sim.m) \div sim.t
SameStory(strict) ==
    { l \in DOMAIN existing :
        /\ existing[l].source = OwnSource
        /\ IF strict THEN Percent(existing[l].title) > 90 /\ Percent(existing[l].content) > 85
                     ELSE Percent(existing[l].title) >= 90 /\ Percent(existing[l].content) >= 85 }

C30_ReadFailureMeansNotDuplicate ==
    read_failed => (~is_dup /\ dup_pc \in { "checked", "stored", "store_error" })

C30_Witness ==
    /\ read_failed
    /\ read_fault = "link"
    /\ dup_pc = "stored"
    /\ existing[cand_link].title.m = TitleLen \div 2
    /\ Cardinality(DOMAIN existing) = MaxStored

\* C24: with no key passed and none in the environment nothing is run:
\* run_full_pipeline_headless returns the error message alone, no stage is
\* invoked and no table touched; main() exits before the loop thread exists.
NoKeyInEnvironment == environ_key \in { None, Some("") }
C24_NoKeyNoWork ==
    /\ (entry = "headless" /\ arg_key = None /\ NoKeyInEnvironment) =>
           /\ loop_pc \in { "pipeline", "returned" }
           /\ loop_pc = "returned" => logs = "error"
           /\ calls = << >>
           /\ ~touched
    /\ (entry = "main" /\ NoKeyInEnvironment) =>
           /\ loop_pc \in { "main", "exited" }
           /\ cycles = 0
           /\ calls = << >>
           /\ ~touched

C24_Witness ==
    /\ entry = "headless"
    /\ arg_key = None
    /\ environ_key = Some("")
    /\ loop_pc = "returned"
    /\ logs = "error"

\* C28: no failure of a scraper, of the date script or of a pipeline stage
\* ends the loop thread.
C28_LoopSurvivesFailures == loop_pc # "dead"

\* C29: in a cycle, every Phase 1 call precedes every Phase 2 call, the
\* Phase 2 calls are the predefined categories in list order, each once, and
\* when the cycle is over all of them have been made.
Phase2Calls == SelectSeq(calls, LAMBDA c : c \in Range(PREDEFINED_CATEGORIES))
CycleOver == calls # << >> /\ loop_pc \in { "sleep", "returned", "dead", "raised" }
C29_Phase1ThenEveryCategory ==
    /\ \A i, j \in DOMAIN calls :
         (i < j /\ calls[i] \in Range(PREDEFINED_CATEGORIES))
             => calls[j] \in Range(PREDEFINED_CATEGORIES)
    /\ IsPrefix(Phase2Calls, PREDEFINED_CATEGORIES)
    /\ CycleOver => Phase2Calls = PREDEFINED_CATEGORIES

====
